---- MODULE Spec2Model ----
(***************************************************************************)
(* A model of radpatterns.py: moment tensors of a point seismic source     *)
(* and the P, SH and SV radiation coefficients.                            *)
(*                                                                         *)
(* Numbers.  The program computes with floats.  The model computes with    *)
(* exact rationals <<n, d>> (d > 0, lowest terms), so that every equality  *)
(* below is an equality of real numbers.                                   *)
(*                                                                         *)
(* Angles.  An angle in degrees is a pair <<k, j>> that stands for         *)
(* 90*k + j*A degrees, A = arctan(3/4) in degrees (about 36.87).  These    *)
(* are the angles whose sine and cosine are rational and easy to compute:  *)
(* cos A = 4/5, sin A = 3/5.  x*pi/180 is the same pair read in units of   *)
(* (pi/2, arctan(3/4)) radians.                                            *)
(***************************************************************************)
EXTENDS Integers, Sequences, FiniteSets, TLC

VARIABLES pc, args, M, uv, rd, exc

vars == <<pc, args, M, uv, rd, exc>>

(***************************************************************************)
(* Exact rational arithmetic.                                              *)
(***************************************************************************)
Abs(n) == IF n < 0 THEN -n ELSE n

RECURSIVE Gcd(_, _)
Gcd(a, b) == IF b = 0 THEN a ELSE Gcd(b, a % b)

Rat(n, d) == LET g == Gcd(Abs(n), Abs(d))
                 s == IF d < 0 THEN -1 ELSE 1
             IN  <<s * (n \div g), s * (d \div g)>>

Zero == <<0, 1>>
One  == <<1, 1>>
Two  == <<2, 1>>

RNeg(x) == <<-x[1], x[2]>>

RAdd(x, y) == LET g == Gcd(x[2], y[2])
                  l == (x[2] \div g) * y[2]
              IN  Rat(x[1] * (l \div x[2]) + y[1] * (l \div y[2]), l)

RSub(x, y) == RAdd(x, RNeg(y))

RMul(x, y) == LET g1 == Gcd(Abs(x[1]), y[2])
                  g2 == Gcd(Abs(y[1]), x[2])
              IN  <<(x[1] \div g1) * (y[1] \div g2), (x[2] \div g2) * (y[2] \div g1)>>

\* x / y for y # 0
RDiv(x, y) == RMul(x, Rat(y[2], y[1]))

\* q ** 0.5: the rational root when q is the square of a rational, and the
\* symbolic surd [sqrt |-> q] otherwise
Pow05(q) == IF /\ \E r \in 0..q[1] : r * r = q[1]
               /\ \E r \in 1..q[2] : r * r = q[2]
            THEN <<CHOOSE r \in 0..q[1] : r * r = q[1],
                   CHOOSE r \in 1..q[2] : r * r = q[2]>>
            ELSE [sqrt |-> q]

(***************************************************************************)
(* Angles and the trigonometric functions.                                 *)
(***************************************************************************)
Deg(k, j) == <<k, j>>

AngleAdd(x, y) == <<x[1] + y[1], x[2] + y[2]>>

\* x*np.pi/180
Radians(x) == [halfpi |-> x[1], atan34 |-> x[2]]

\* <<cos(j*A), sin(j*A)>> by the addition formulas
RECURSIVE CosSinTilt(_)
CosSinTilt(j) ==
    IF j = 0 THEN <<One, Zero>>
    ELSE IF j < 0 THEN LET p == CosSinTilt(-j) IN <<p[1], RNeg(p[2])>>
    ELSE LET p == CosSinTilt(j - 1)
         IN  <<RSub(RMul(p[1], <<4, 5>>), RMul(p[2], <<3, 5>>)),
               RAdd(RMul(p[2], <<4, 5>>), RMul(p[1], <<3, 5>>))>>

np_cos(r) == LET p == CosSinTilt(r.atan34)
                 k == r.halfpi % 4
             IN  CASE k = 0 -> p[1]
                   [] k = 1 -> RNeg(p[2])
                   [] k = 2 -> RNeg(p[1])
                   [] k = 3 -> p[2]

np_sin(r) == LET p == CosSinTilt(r.atan34)
                 k == r.halfpi % 4
             IN  CASE k = 0 -> p[2]
                   [] k = 1 -> p[1]
                   [] k = 2 -> RNeg(p[2])
                   [] k = 3 -> RNeg(p[1])

(***************************************************************************)
(* Vectors and 3x3 matrices; index i of the program is index i+1 here.     *)
(***************************************************************************)
Idx == 1..3

Vec(f(_)) == <<f(1), f(2), f(3)>>

Mat(f(_, _)) == <<<<f(1, 1), f(1, 2), f(1, 3)>>,
                  <<f(2, 1), f(2, 2), f(2, 3)>>,
                  <<f(3, 1), f(3, 2), f(3, 3)>>>>

np_zeros == <<<<Zero, Zero, Zero>>, <<Zero, Zero, Zero>>, <<Zero, Zero, Zero>>>>

\* M[i,j] = v on a copy of M
Set(A, i, j, v) == [A EXCEPT ![i + 1][j + 1] = v]

Transpose(A) == LET e(i, j) == A[j][i] IN Mat(e)

\* np.dot of two vectors, and of a matrix and a vector
np_dot_vv(x, y) == RAdd(RAdd(RMul(x[1], y[1]), RMul(x[2], y[2])), RMul(x[3], y[3]))

np_dot_mv(A, x) == LET e(i) == np_dot_vv(A[i], x) IN Vec(e)

\* np.tensordot(A, B, axes=[1,0]): the matrix product
tensordot(A, B) ==
    LET Bt == Transpose(B)
        e(i, j) == np_dot_vv(A[i], Bt[j])
    IN  Mat(e)

Scale(a, A) == LET e(i, j) == RMul(a, A[i][j]) IN Mat(e)

MatAdd(A, B) == LET e(i, j) == RAdd(A[i][j], B[i][j]) IN Mat(e)

(***************************************************************************)
(* A call returns a value or raises.                                       *)
(***************************************************************************)
Return(v) == [exc |-> "none", val |-> v]

Raise(e) == [exc |-> e, val |-> <<>>]

DefaultPoissonsRatio == <<1, 4>>

(***************************************************************************)
(* fault_projected_moment_tensor                                           *)
(***************************************************************************)
FaultShear(rake) ==
    LET slip_strike  == np_cos(Radians(rake))
        slip_downdip == RNeg(np_sin(Radians(rake)))
    IN  Set(Set(Set(Set(np_zeros, 1, 2, slip_strike), 2, 1, slip_strike),
                0, 2, slip_downdip), 2, 0, slip_downdip)

FaultExplosion ==
    LET e == Pow05(RDiv(Two, <<3, 1>>))
    IN  Set(Set(Set(np_zeros, 0, 0, e), 1, 1, e), 2, 2, e)

FaultOpening(lambda2shmod) ==
    Set(Set(Set(np_zeros, 0, 0, lambda2shmod), 1, 1, lambda2shmod),
        2, 2, RAdd(lambda2shmod, Two))

fault_projected_moment_tensor(slip_type, rake, poissons_ratio) ==
    LET den == RSub(One, RMul(Two, poissons_ratio))
    IN  IF den = Zero
        THEN Raise("ZeroDivisionError")
        ELSE LET lambda2shmod == RDiv(RMul(Two, poissons_ratio), den)
             IN  Return(CASE slip_type = "shear"     -> FaultShear(rake)
                          [] slip_type = "explosion" -> FaultExplosion
                          [] slip_type = "opening"   -> FaultOpening(lambda2shmod)
                          [] OTHER                   -> np_zeros)

(***************************************************************************)
(* create_moment_tensor                                                    *)
(***************************************************************************)
\* the rotation applied unless the fault system is asked for by name
IsGeographic_UnlessFault(coordinates) == coordinates # "fault"

IsGeographic(coordinates) == coordinates \in {"xyz", "XYZ", "ENZ", "enz"}

\* the dip rotation with sine and cosine exchanged
DipRotation_SinCosSwapped(dip) ==
    Set(Set(Set(Set(Set(np_zeros, 1, 1, One),
                        0, 0, np_sin(dip)),
                    2, 0, RNeg(np_cos(dip))),
                0, 2, np_cos(dip)),
            2, 2, np_sin(dip))

\* the matrix R of the dip rotation; dip in radians
DipRotation(dip) ==
    Set(Set(Set(Set(Set(np_zeros, 1, 1, One),
                        0, 0, np_cos(dip)),
                    2, 0, RNeg(np_sin(dip))),
                0, 2, np_sin(dip)),
            2, 2, np_cos(dip))

\* the strike rotation with the sign of R[1,0] lost
StrikeRotation_SignLost(strike) ==
    Set(Set(Set(Set(Set(np_zeros, 2, 2, One),
                        0, 0, np_cos(strike)),
                    0, 1, np_sin(strike)),
                1, 1, np_cos(strike)),
            1, 0, np_sin(strike))

\* the matrix R of the strike rotation; strike in radians
StrikeRotation(strike) ==
    Set(Set(Set(Set(Set(np_zeros, 2, 2, One),
                        0, 0, np_cos(strike)),
                    0, 1, np_sin(strike)),
                1, 1, np_cos(strike)),
            1, 0, RNeg(np_sin(strike)))

\* the rotation with the transpose forgotten
Rotate_NoTranspose(R, T) == tensordot(R, tensordot(T, R))

\* M=np.tensordot(R,np.tensordot(M,R.T,axes=[1,0]),axes=[1,0])
Rotate(R, T) == tensordot(R, tensordot(T, Transpose(R)))

\* the tensor before the rotation to the ENZ grid
BlendedTensor(rake, opening_angle, poissons_ratio) ==
    LET Mshear == fault_projected_moment_tensor("shear", rake, DefaultPoissonsRatio).val
        Mopen  == fault_projected_moment_tensor("opening", Deg(0, 0), DefaultPoissonsRatio).val
        fraction_shear   == np_cos(Radians(opening_angle))
        fraction_opening == np_sin(Radians(opening_angle))
    IN  MatAdd(Scale(fraction_shear, Mshear), Scale(fraction_opening, Mopen))

create_moment_tensor(strike, dip, rake, opening_angle, coordinates, poissons_ratio) ==
    LET T == BlendedTensor(rake, opening_angle, poissons_ratio)
    IN  IF IsGeographic(coordinates)
        THEN Rotate(StrikeRotation(Radians(strike)), Rotate(DipRotation(Radians(dip)), T))
        ELSE T

(***************************************************************************)
(* calc_unit_vectors                                                       *)
(***************************************************************************)
\* R_vec with the azimuth measured from east, anticlockwise
R_vec_FromEast(theta, phi) == <<RMul(np_sin(theta), np_cos(phi)),
                                RMul(np_sin(theta), np_sin(phi)),
                                RNeg(np_cos(theta))>>

R_vec(theta, phi) == <<RMul(np_sin(theta), np_sin(phi)),
                       RMul(np_sin(theta), np_cos(phi)),
                       RNeg(np_cos(theta))>>

\* theta_vec as first assigned (the assignment the program overwrites)
theta_vec_first(theta, phi) == <<RMul(np_cos(theta), np_cos(phi)),
                                 RMul(np_cos(theta), np_sin(phi)),
                                 RNeg(np_sin(theta))>>

theta_vec(theta, phi) == <<RMul(np_cos(theta), np_sin(phi)),
                           RMul(np_cos(theta), np_cos(phi)),
                           np_sin(theta)>>

phi_vec(theta, phi) == <<np_cos(phi), RNeg(np_sin(phi)), Zero>>

calc_unit_vectors(takeoff_angle, azimuth) ==
    LET theta == Radians(takeoff_angle)
        phi   == Radians(azimuth)
    IN  <<R_vec(theta, phi), theta_vec(theta, phi), phi_vec(theta, phi)>>

(***************************************************************************)
(* calc_radiation_pattern: <<rd_p, rd_sh, rd_sv>>                          *)
(***************************************************************************)
\* calc_radiation_pattern returning rd_sh, rd_p, rd_sv in that order
calc_radiation_pattern_ShFirst(T, takeoff_angle, azimuth) ==
    LET u     == calc_unit_vectors(takeoff_angle, azimuth)
        rd_sh == np_dot_vv(u[3], np_dot_mv(T, u[1]))
        rd_sv == np_dot_vv(u[2], np_dot_mv(T, u[1]))
        rd_p  == np_dot_vv(u[1], np_dot_mv(T, u[1]))
    IN  <<rd_sh, rd_p, rd_sv>>

\* calc_radiation_pattern contracting with M.M instead of M
calc_radiation_pattern_Squared(T, takeoff_angle, azimuth) ==
    LET u     == calc_unit_vectors(takeoff_angle, azimuth)
        TT    == tensordot(T, T)
        rd_sh == np_dot_vv(u[3], np_dot_mv(TT, u[1]))
        rd_sv == np_dot_vv(u[2], np_dot_mv(TT, u[1]))
        rd_p  == np_dot_vv(u[1], np_dot_mv(TT, u[1]))
    IN  <<rd_p, rd_sh, rd_sv>>

calc_radiation_pattern(T, takeoff_angle, azimuth) ==
    LET u     == calc_unit_vectors(takeoff_angle, azimuth)
        rd_sh == np_dot_vv(u[3], np_dot_mv(T, u[1]))
        rd_sv == np_dot_vv(u[2], np_dot_mv(T, u[1]))
        rd_p  == np_dot_vv(u[1], np_dot_mv(T, u[1]))
    IN  <<rd_p, rd_sh, rd_sv>>

(***************************************************************************)
(* Inputs.                                                                 *)
(***************************************************************************)
\* quarter turns 0, 90, ..., 90*MaxQuarter degrees
MaxQuarter == 3

\* multiples of A added to a quarter turn; cos and sin of <<k, j>> have
\* denominator 5^|j|, and a coefficient of a rotated tensor multiplies ten
\* of them, which has to stay below 2^31
Tilts == {-1, 0, 1}

Angles == {Deg(k, j) : k \in 0..MaxQuarter, j \in Tilts}

Upright == {Deg(k, j) : k \in 0..MaxQuarter, j \in {0, 1}}

SlipTypes == {"shear", "opening", "explosion", "other"}

Coordinates == {"xyz", "ENZ", "fault", "other"}

PoissonsRatios == {<<0, 1>>, <<1, 6>>, <<1, 4>>, <<1, 3>>, <<1, 2>>, <<1, 1>>}

\* the default poissons_ratio and another one in (0, 0.5)
SomePoissonsRatios == {<<1, 4>>, <<1, 3>>}

\* 0, A and 90 degrees
Dips == {Deg(0, 0), Deg(0, 1), Deg(1, 0)}

\* 0, 90 and 90 - A degrees
Rakes == {Deg(0, 0), Deg(1, 0), Deg(1, -1)}

\* pure shear and a mixture of shear and opening
Openings == {Deg(0, 0), Deg(0, 1)}

\* 0 (straight down), A, 90 (horizontal) and 90 + A degrees
Takeoffs == {Deg(0, 0), Deg(0, 1), Deg(1, 0), Deg(1, 1)}

\* the scalars a and b of a linear combination
MaxScalar == 1

Scalars == {<<n, 1>> : n \in (-MaxScalar)..MaxScalar} \cup {<<1, 2>>}

\* M[i,j] = 1 and zero elsewhere
Unit(i, j) == Set(np_zeros, i, j, One)

None == <<>>

(***************************************************************************)
(* The calls.  pc is the sequence of calls still to make; a call that      *)
(* raises ends the run with the exception in exc.                          *)
(***************************************************************************)
FaultProjectedMomentTensor ==
    /\ pc # <<>> /\ Head(pc) = "fault_projected_moment_tensor"
    /\ LET r == fault_projected_moment_tensor(args.slip_type, args.rake,
                                              args.poissons_ratio)
       IN  /\ M' = r.val
           /\ exc' = r.exc
           /\ pc' = IF r.exc = "none" THEN Tail(pc) ELSE <<>>
    /\ UNCHANGED <<args, uv, rd>>

CreateMomentTensor ==
    /\ pc # <<>> /\ Head(pc) = "create_moment_tensor"
    /\ M' = create_moment_tensor(args.strike, args.dip, args.rake, args.opening_angle,
                                 args.coordinates, args.poissons_ratio)
    /\ pc' = Tail(pc)
    /\ UNCHANGED <<args, uv, rd, exc>>

CalcUnitVectors ==
    /\ pc # <<>> /\ Head(pc) = "calc_unit_vectors"
    /\ uv' = calc_unit_vectors(args.takeoff_angle, args.azimuth)
    /\ pc' = Tail(pc)
    /\ UNCHANGED <<args, M, rd, exc>>

CalcRadiationPattern ==
    /\ pc # <<>> /\ Head(pc) = "calc_radiation_pattern"
    /\ rd' = calc_radiation_pattern(M, args.takeoff_angle, args.azimuth)
    /\ pc' = Tail(pc)
    /\ UNCHANGED <<args, M, uv, exc>>

Done == pc = <<>>

(***************************************************************************)
(* One call of fault_projected_moment_tensor.                              *)
(***************************************************************************)
InitFault ==
    /\ pc = <<"fault_projected_moment_tensor">>
    /\ args \in [slip_type : SlipTypes, rake : Angles, poissons_ratio : PoissonsRatios]
    /\ M = None /\ uv = None /\ rd = None /\ exc = "none"

NextFault == FaultProjectedMomentTensor

SpecFault == InitFault /\ [][NextFault]_vars

(***************************************************************************)
(* One call of create_moment_tensor.                                       *)
(***************************************************************************)
InitTensor ==
    /\ pc = <<"create_moment_tensor">>
    /\ args \in [strike : Upright, dip : Upright, rake : Upright, opening_angle : Upright,
                 coordinates : Coordinates, poissons_ratio : SomePoissonsRatios]
    /\ M = None /\ uv = None /\ rd = None /\ exc = "none"

NextTensor == CreateMomentTensor

SpecTensor == InitTensor /\ [][NextTensor]_vars

(***************************************************************************)
(* One call of calc_unit_vectors.                                          *)
(***************************************************************************)
InitVectors ==
    /\ pc = <<"calc_unit_vectors">>
    /\ args \in [takeoff_angle : Angles, azimuth : Angles]
    /\ M = None /\ uv = None /\ rd = None /\ exc = "none"

NextVectors == CalcUnitVectors

SpecVectors == InitVectors /\ [][NextVectors]_vars

(***************************************************************************)
(* One call of calc_radiation_pattern on the tensor a*M1 + b*M2.           *)
(***************************************************************************)
Tensors1 ==
    { np_zeros, Unit(0, 1), Unit(2, 0),
      fault_projected_moment_tensor("opening", Deg(0, 0), <<1, 3>>).val,
      create_moment_tensor(Deg(0, 1), Deg(1, 1), Deg(0, 1), Deg(0, 1), "xyz",
                           DefaultPoissonsRatio) }

Tensors2 ==
    { Unit(1, 2), Unit(2, 2),
      create_moment_tensor(Deg(1, 0), Deg(0, 1), Deg(1, 1), Deg(0, 0), "xyz",
                           DefaultPoissonsRatio) }

Combination(a, M1, b, M2) == MatAdd(Scale(a, M1), Scale(b, M2))

InitRadiation ==
    /\ pc = <<"calc_radiation_pattern">>
    /\ args \in [M1 : Tensors1, M2 : Tensors2, a : Scalars, b : Scalars,
                 takeoff_angle : Upright, azimuth : Upright]
    /\ M = Combination(args.a, args.M1, args.b, args.M2)
    /\ uv = None /\ rd = None /\ exc = "none"

NextRadiation == CalcRadiationPattern

SpecRadiation == InitRadiation /\ [][NextRadiation]_vars

(***************************************************************************)
(* create_moment_tensor, then calc_radiation_pattern on its result.        *)
(***************************************************************************)
InitSource ==
    /\ pc = <<"create_moment_tensor", "calc_radiation_pattern">>
    /\ args \in [strike : Upright, dip : Dips, rake : Rakes, opening_angle : Openings,
                 coordinates : {"xyz"}, poissons_ratio : {DefaultPoissonsRatio},
                 takeoff_angle : Takeoffs, azimuth : Upright]
    /\ M = None /\ uv = None /\ rd = None /\ exc = "none"

NextSource == CreateMomentTensor \/ CalcRadiationPattern

SpecSource == InitSource /\ [][NextSource]_vars

(***************************************************************************)
(* Helpers of the properties.                                              *)
(***************************************************************************)
Identity == <<<<One, Zero, Zero>>, <<Zero, One, Zero>>, <<Zero, Zero, One>>>>

IsSymmetric(T) == \A i, j \in Idx : T[i][j] = T[j][i]

\* R^T . G . R
RotateBack(R, G) == tensordot(Transpose(R), tensordot(G, R))

FaultLocal == create_moment_tensor(args.strike, args.dip, args.rake, args.opening_angle,
                                   "fault", args.poissons_ratio)

(***************************************************************************)
(* Properties of fault_projected_moment_tensor (SpecFault).                *)
(***************************************************************************)
\* C8: for slip_type 'shear' or 'explosion' and every poissons_ratio, 0.5
\* included, the call returns a tensor without raising, and the tensor is the
\* one returned for the default poissons_ratio.
C8_ShearAndExplosionTotal ==
    (Done /\ args.slip_type \in {"shear", "explosion"}) =>
        /\ exc = "none"
        /\ M = fault_projected_moment_tensor(args.slip_type, args.rake,
                                             DefaultPoissonsRatio).val

(***************************************************************************)
(* Properties of create_moment_tensor (SpecTensor).                        *)
(***************************************************************************)
\* C1: with opening_angle = 90 in the fault-local frame, the tensor returned
\* is the opening tensor of the caller's poissons_ratio, diag(L, L, L+2) with
\* L = 2v/(1-2v), for any strike, dip and rake.
C1_OpeningUsesPoissonsRatio ==
    (Done /\ args.opening_angle = Deg(1, 0) /\ args.coordinates = "fault") =>
        /\ M = fault_projected_moment_tensor("opening", Deg(0, 0),
                                             args.poissons_ratio).val
        /\ LET L == RDiv(RMul(Two, args.poissons_ratio),
                         RSub(One, RMul(Two, args.poissons_ratio)))
           IN  M = <<<<L, Zero, Zero>>, <<Zero, L, Zero>>, <<Zero, Zero, RAdd(L, Two)>>>>

\* C3: the tensor returned by create_moment_tensor is symmetric, in the
\* geographic frame and in the fault-local frame.
C3_TensorSymmetric == Done => IsSymmetric(M)

C3_Witness ==
    /\ Done /\ IsGeographic(args.coordinates)
    /\ args.strike = Deg(1, 1) /\ args.dip = Deg(0, 1) /\ args.opening_angle = Deg(2, 1)
    /\ M[1][2] # Zero /\ M[1][3] # Zero /\ M[2][3] # Zero

\* C5: with strike = 0 and dip = 0 the geographic tensor is the fault-local
\* tensor of the same rake, opening_angle and poissons_ratio.
C5_IdentityRotation ==
    (Done /\ IsGeographic(args.coordinates)
          /\ args.strike = Deg(0, 0) /\ args.dip = Deg(0, 0)) => M = FaultLocal

C5_Witness ==
    /\ Done /\ IsGeographic(args.coordinates)
    /\ args.strike = Deg(0, 0) /\ args.dip = Deg(0, 0)
    /\ args.rake = Deg(1, 1) /\ args.opening_angle = Deg(0, 1)
    /\ M[1][3] # Zero /\ M[2][3] # Zero /\ M[3][3] # Zero

\* C7: the inverse rotations in reverse order (strike first, then dip) take
\* the geographic tensor back to the fault-local tensor, and both rotation
\* matrices are orthogonal.
C7_RoundTrip ==
    (Done /\ IsGeographic(args.coordinates)) =>
        LET Rs == StrikeRotation(Radians(args.strike))
            Rd == DipRotation(Radians(args.dip))
        IN  /\ RotateBack(Rd, RotateBack(Rs, M)) = FaultLocal
            /\ tensordot(Rs, Transpose(Rs)) = Identity
            /\ tensordot(Rd, Transpose(Rd)) = Identity

C7_Witness ==
    /\ Done /\ IsGeographic(args.coordinates)
    /\ args.strike = Deg(3, 1) /\ args.dip = Deg(1, 1)
    /\ args.rake = Deg(0, 1) /\ args.opening_angle = Deg(0, 1)
    /\ M # FaultLocal

\* C9: a coordinates selector that is neither a geographic form nor 'fault'
\* does not fail and yields the fault-local tensor, unrotated.
C9_UnrecognizedSelector ==
    (Done /\ args.coordinates \notin {"xyz", "XYZ", "ENZ", "enz", "fault"}) =>
        /\ exc = "none"
        /\ M = FaultLocal
        /\ M = BlendedTensor(args.rake, args.opening_angle, args.poissons_ratio)

C9_Witness ==
    /\ Done /\ args.coordinates = "other"
    /\ args.strike = Deg(1, 1) /\ args.dip = Deg(0, 1)
    /\ M = FaultLocal
    /\ M # create_moment_tensor(args.strike, args.dip, args.rake, args.opening_angle,
                                "xyz", args.poissons_ratio)

(***************************************************************************)
(* Properties of calc_unit_vectors (SpecVectors).                          *)
(***************************************************************************)
\* C2: R_vec, theta_vec and phi_vec each have squared norm 1, and every two
\* of them have dot product 0.
C2_Orthonormal ==
    Done => /\ \A i \in Idx : np_dot_vv(uv[i], uv[i]) = One
            /\ \A i, j \in Idx : i # j => np_dot_vv(uv[i], uv[j]) = Zero

C2_Witness ==
    /\ Done /\ args.takeoff_angle = Deg(0, 1) /\ args.azimuth = Deg(1, 1)
    /\ \A i \in Idx : uv[1][i] # Zero
    /\ \A i \in Idx : uv[2][i] # Zero

(***************************************************************************)
(* Properties of calc_radiation_pattern (SpecRadiation).                   *)
(***************************************************************************)
\* C4: (P, SH, SV) of a*M1 + b*M2 is a times (P, SH, SV) of M1 plus b times
\* (P, SH, SV) of M2, and the zero tensor gives (0, 0, 0).
C4_Linear ==
    Done =>
        LET r1 == calc_radiation_pattern(args.M1, args.takeoff_angle, args.azimuth)
            r2 == calc_radiation_pattern(args.M2, args.takeoff_angle, args.azimuth)
        IN  /\ \A i \in Idx : rd[i] = RAdd(RMul(args.a, r1[i]), RMul(args.b, r2[i]))
            /\ M = np_zeros => rd = <<Zero, Zero, Zero>>

C4_Witness ==
    /\ Done /\ args.a = <<1, 2>> /\ args.b = <<-1, 1>>
    /\ args.M1 # np_zeros /\ ~IsSymmetric(args.M1)
    /\ args.takeoff_angle = Deg(0, 1) /\ args.azimuth = Deg(1, 1)
    /\ \A i \in Idx : rd[i] # Zero

(***************************************************************************)
(* Properties of a source and its radiation (SpecSource).                  *)
(***************************************************************************)
\* C6: for the pure shear source strike = 0, dip = 90, rake = 0,
\* opening_angle = 0 in the geographic frame, P at takeoff_angle = 90,
\* azimuth = 0 is 0.
C6_NodalAlongStrike ==
    (/\ Done
     /\ args.strike = Deg(0, 0) /\ args.dip = Deg(1, 0) /\ args.rake = Deg(0, 0)
     /\ args.opening_angle = Deg(0, 0) /\ IsGeographic(args.coordinates)
     /\ args.takeoff_angle = Deg(1, 0) /\ args.azimuth = Deg(0, 0)) => rd[1] = Zero

C6_Witness ==
    /\ Done
    /\ args.strike = Deg(0, 0) /\ args.dip = Deg(1, 0) /\ args.rake = Deg(0, 0)
    /\ args.opening_angle = Deg(0, 0) /\ IsGeographic(args.coordinates)
    /\ args.takeoff_angle = Deg(1, 0) /\ args.azimuth = Deg(0, 0)
    /\ M = <<<<Zero, One, Zero>>, <<One, Zero, Zero>>, <<Zero, Zero, Zero>>>>
    /\ rd = <<Zero, One, Zero>>

\* the angles delta that keep strike + delta and azimuth + delta among the
\* angles the model computes with
Deltas == {d \in Angles : /\ args.strike[2] + d[2] \in Tilts
                          /\ args.azimuth[2] + d[2] \in Tilts}

\* C10: turning the fault and the receiver together about the vertical
\* (strike + delta, azimuth + delta) leaves (P, SH, SV) unchanged.
C10_StrikeAzimuthCovariance ==
    (Done /\ IsGeographic(args.coordinates)) =>
        \A d \in Deltas :
            calc_radiation_pattern(
                create_moment_tensor(AngleAdd(args.strike, d), args.dip, args.rake,
                                     args.opening_angle, args.coordinates,
                                     args.poissons_ratio),
                args.takeoff_angle, AngleAdd(args.azimuth, d)) = rd

C10_Witness ==
    /\ Done /\ IsGeographic(args.coordinates)
    /\ args.strike = Deg(1, 0) /\ args.azimuth = Deg(0, 1)
    /\ args.dip = Deg(0, 1) /\ args.takeoff_angle = Deg(0, 1)
    /\ Deg(2, -1) \in Deltas /\ Deg(1, 0) \in Deltas
    /\ \A i \in Idx : rd[i] # Zero
    /\ calc_radiation_pattern(M, args.takeoff_angle,
                              AngleAdd(args.azimuth, Deg(2, -1))) # rd

====
